---- MODULE Spec2Model ----
(***************************************************************************)
(* Model of the video-bot backend: an HTTP proxy in front of an upstream   *)
(* text-to-video service.  Three deployments of the server exist:          *)
(*   "nostore"     src/server.js lines 1-298   (status re-queried upstream)*)
(*   "memory"      src/server.js lines 300-657 (videoStore Map + Poller)   *)
(*   "filesystem"  src/unnamed/part_000        (video-{jobId}.mp4 + Poller)*)
(* Node runs handlers to their next await without preemption, so an action *)
(* is the code that runs when an awaited upstream call settles, up to the  *)
(* next await.  Upstream is opaque: every call settles with any outcome.   *)
(* Upstream assigns a fresh id to every accepted job.                      *)
(***************************************************************************)
EXTENDS Integers, FiniteSets, Sequences, TLC

\* ------------------------------------------------------------------ bounds
\* jobs upstream accepts in one run of the server
MaxJobs == 1

\* --------------------------------------------------------------- constants
\* monitorVideoGeneration / waitForVideoCompletion: const maxAttempts = 60
maxAttempts == 60

JobIds == 1..MaxJobs
\* a request that carries no jobId (req.body.jobId / req.query.jobId falsy)
NoJobId == 0 - 1
ReqJobIds == JobIds \cup {NoJobId}

Variants == {"nostore", "memory", "filesystem"}
\* the variants that start a background Poller on submission
PollerVariants == {"memory", "filesystem"}

\* upstream job states (opaque strings); "cancelled" stands for any string the
\* lookup tables do not know
Statuses == {"running", "succeeded", "failed", "cancelled"}
SubmitStatuses == {"preprocessing", "queued"}
\* data.generations[0].id, or NoGen when generations is absent or empty
NoGen == "nogen"
GenIds == {"g1", "g2"}
\* bodies the upstream content endpoint can send
NoBytes == "nobytes"
Bytes == {"b1", "b2"}
\* req.body.prompt: absent, empty, or a text
Prompts == {"absent", "", "a cat"}

\* outcomes of one upstream job submission (fetch + response.json())
SubmitResults ==
    {[kind |-> "throw", code |-> 0, status |-> ""]}
    \cup [kind : {"http"}, code : {200, 201, 202}, status : SubmitStatuses]

\* outcomes of one upstream status fetch
FetchFailure == [ok |-> FALSE, status |-> "", gen |-> NoGen, prompt |-> ""]
\* upstream lists generations once the job has succeeded (the code reads them
\* for no other status), and may list none even then
FetchResults ==
    {FetchFailure}
    \cup [ok : {TRUE}, status : Statuses \ {"succeeded"}, gen : {NoGen}, prompt : {"a cat"}]
    \cup [ok : {TRUE}, status : {"succeeded"}, gen : GenIds \cup {NoGen}, prompt : {"a cat"}]

\* outcomes of one upstream content fetch
ContentFailure == [ok |-> FALSE, bytes |-> NoBytes]
ContentResults == {ContentFailure} \cup [ok : {TRUE}, bytes : Bytes]

VARIABLES
    variant,      \* which server file is running
    endpointSet,  \* process.env.AZURE_VIDEO_ENDPOINT is set
    keySet,       \* process.env.AZURE_VIDEO_KEY is set
    nextId,       \* id upstream gives to the next accepted job
    videoStore,   \* memory: const videoStore = new Map()
    files,        \* filesystem: content of videosDir/video-{jobId}.mp4
    poller,       \* per job: the detached background flow
    started,      \* per job: Poller runs started for it
    resp          \* what the last step sent or logged, NoResp at the start

vars == <<variant, endpointSet, keySet, nextId, videoStore, files, poller,
          started, resp>>

\* ------------------------------------------------------------- store entry
\* Absent: videoStore.get(jobId) === undefined
Absent == [status |-> "absent", generationId |-> NoGen, prompt |-> ""]
ReadyEntry(g, prompt) == [status |-> "ready", generationId |-> g, prompt |-> prompt]
FailedEntry == [status |-> "failed", generationId |-> NoGen, prompt |-> ""]

\* --------------------------------------------------------------- responses
\* a numeric field the JSON body does not carry
Omitted == 0 - 1

\* kind: the handler ("generate", "check", "download", "info", "health") or
\* background step ("poll", "content", "save") that ran; jobId .. activeJobs:
\* what it sent to the client; prompt: the prompt of the request, or of the
\* entry in a /get-video-info answer; upstreamCalled .. fetched: whether and
\* what it asked upstream and what upstream answered
NoResp ==
    [kind |-> "none", jobId |-> NoJobId, http |-> 0, success |-> FALSE,
     error |-> "", status |-> "", videoReady |-> FALSE, downloadUrl |-> NoJobId,
     videoUrl |-> "", prompt |-> "", upstreamCalled |-> FALSE, upstreamCode |-> 0,
     upstreamStatus |-> "", fetchedGen |-> NoGen, upstreamBytes |-> NoBytes,
     body |-> NoBytes, fetched |-> "", generationId |-> NoGen,
     activeJobs |-> Omitted, progress |-> Omitted, message |-> ""]

\* ---------------------------------------------------------------- poller
\* pc: where the flow waits; attempt: the loop variable (while pc = "polling" the
\* attempt-th status fetch of the run is in flight); outcome: how the polling
\* loop ended; generationId: the id captured with 'succeeded'
Idle ==
    [pc |-> "idle", attempt |-> 0, outcome |-> "PENDING",
     generationId |-> NoGen, endpoint |-> 1, videoBuffer |-> NoBytes]

Init ==
    /\ variant \in Variants
    /\ endpointSet \in BOOLEAN
    /\ keySet \in BOOLEAN
    /\ nextId = 1
    /\ videoStore = [j \in JobIds |-> Absent]
    /\ files = [j \in JobIds |-> NoBytes]
    /\ poller = [j \in JobIds |-> Idle]
    /\ started = [j \in JobIds |-> 0]
    /\ resp = NoResp

\* ------------------------------------------------------ upstream client
\* checkVideoStatus(jobId): never throws; a TypeError on the unset endpoint, a
\* network error and a non-ok HTTP status all become {success:false, error}
CheckVideoStatus(up) ==
    IF ~endpointSet \/ ~up.ok
    THEN [success |-> FALSE, status |-> "", gen |-> NoGen, prompt |-> ""]
    ELSE [success |-> TRUE, status |-> up.status, gen |-> up.gen, prompt |-> up.prompt]

\* ----------------------------------------------------- POST /generate-video
\* mutant: only an absent prompt is refused (prompt === undefined)
PromptMissingOnlyAbsent(prompt) == prompt = "absent"

\* if (!prompt)
PromptMissing(prompt) == prompt \in {"absent", ""}

\* if (!process.env.AZURE_VIDEO_ENDPOINT || !process.env.AZURE_VIDEO_KEY)
ConfigMissing == ~endpointSet \/ ~keySet

ConfigError ==
    IF variant = "filesystem" THEN "Azure Video configuration missing"
    ELSE "Video service configuration missing"

\* mutant: any 2xx answer counts as accepted (response.ok)
AcceptedAnyOk(code) == code \in {200, 201, 202}

\* if (response.status === 201 || response.status === 202)
Accepted(code) == code = 201 \/ code = 202

\* monitorVideoGeneration(jobId) / processVideoInBackground(jobId, prompt): the
\* call runs the Poller up to its first await, the first status fetch
StartPoller(j) ==
    IF variant \in PollerVariants
    THEN /\ poller' = [poller EXCEPT ![j] = [Idle EXCEPT !.pc = "polling", !.attempt = 1]]
         /\ started' = [started EXCEPT ![j] = @ + 1]
    ELSE UNCHANGED <<poller, started>>

GenerateFailure(prompt, error) ==
    [NoResp EXCEPT !.kind = "generate", !.http = 200, !.error = error, !.prompt = prompt]

PostGenerateVideo(prompt, up) ==
    /\ IF PromptMissing(prompt)
       THEN /\ resp' = GenerateFailure(prompt, "Please provide a video prompt")
            /\ UNCHANGED <<nextId, poller, started>>
       ELSE IF ConfigMissing
       THEN /\ resp' = GenerateFailure(prompt, ConfigError)
            /\ UNCHANGED <<nextId, poller, started>>
       ELSE IF up.kind = "http" /\ Accepted(up.code)
       THEN /\ nextId <= MaxJobs
            /\ StartPoller(nextId)
            /\ nextId' = nextId + 1
            /\ resp' = [NoResp EXCEPT !.kind = "generate", !.http = 200,
                                      !.success = TRUE, !.jobId = nextId,
                                      !.status = up.status, !.prompt = prompt,
                                      !.upstreamCalled = TRUE,
                                      !.upstreamCode = up.code,
                                      !.upstreamStatus = up.status]
       ELSE /\ resp' = [GenerateFailure(prompt, "Video generation failed") EXCEPT
                            !.upstreamCalled = TRUE, !.upstreamCode = up.code]
            /\ UNCHANGED <<nextId, poller, started>>
    /\ UNCHANGED <<variant, endpointSet, keySet, videoStore, files>>

\* ------------------------------------------------------------ Status Poller
\* mutant: the loop test is off by one and lets a 61st attempt through
LoopGuardOneMore(attempt) == attempt <= maxAttempts + 1

\* mutant: the loop test is off by one and stops after 59 attempts
LoopGuardOneLess(attempt) == attempt < maxAttempts

\* for (let attempt = 1; attempt <= maxAttempts; attempt++)
LoopGuard(attempt) == attempt <= maxAttempts

\* the loop is left by break or return: attempt goes out of scope
Finished(p, outcome) == [p EXCEPT !.pc = "done", !.attempt = 0, !.outcome = outcome]

\* mutant: a failed status fetch ends the run as if the job had failed
NextAttemptStopsOnError(p, status) ==
    IF ~status.success THEN [p EXCEPT !.pc = "done", !.attempt = 0, !.outcome = "FAILED"]
    ELSE IF p.attempt + 1 <= maxAttempts
    THEN [p EXCEPT !.attempt = @ + 1]
    ELSE [p EXCEPT !.attempt = @ + 1, !.pc = "done", !.outcome = "TIMED_OUT"]

\* the rest of an iteration whose status was not 'succeeded' or 'failed', be it
\* another status or {success:false}: the timer, attempt++, the loop test and,
\* when it passes, the next status fetch; when it fails attempt keeps the value
\* that failed it
NextAttempt(p, status) ==
    IF LoopGuard(p.attempt + 1)
    THEN [p EXCEPT !.attempt = @ + 1]
    ELSE [p EXCEPT !.attempt = @ + 1, !.pc = "done", !.outcome = "TIMED_OUT"]

\* what the settled status fetch of an iteration showed
Fetched(status) ==
    IF ~status.success THEN "error"
    ELSE IF status.status \in {"succeeded", "failed"} THEN status.status
    ELSE "pending"

PollLog(j, status) == [NoResp EXCEPT !.kind = "poll", !.jobId = j, !.fetched = Fetched(status)]

\* mutant: the entry is written even when upstream lists no generation
SucceededEntryAlways(entry, status) == ReadyEntry(status.gen, status.prompt)

\* what monitorVideoGeneration writes for status 'succeeded'
SucceededEntry(entry, status) ==
    IF status.gen # NoGen THEN ReadyEntry(status.gen, status.prompt) ELSE entry

\* what monitorVideoGeneration writes for status 'failed'
FailedWrite(entry) == FailedEntry

\* memory: one iteration of monitorVideoGeneration, from the settling of its
\* status fetch
MonitorVideoGeneration(j, up) ==
    /\ variant = "memory"
    /\ poller[j].pc = "polling"
    /\ LET status == CheckVideoStatus(up)
       IN  /\ IF status.success /\ status.status = "succeeded"
              THEN /\ videoStore' = [videoStore EXCEPT ![j] = SucceededEntry(@, status)]
                   /\ poller' = [poller EXCEPT ![j] =
                                    Finished([@ EXCEPT !.generationId = status.gen],
                                             "SUCCEEDED")]
              ELSE IF status.success /\ status.status = "failed"
              THEN /\ videoStore' = [videoStore EXCEPT ![j] = FailedWrite(@)]
                   /\ poller' = [poller EXCEPT ![j] = Finished(@, "FAILED")]
              ELSE /\ poller' = [poller EXCEPT ![j] = NextAttempt(@, status)]
                   /\ UNCHANGED videoStore
           /\ resp' = PollLog(j, status)
    /\ UNCHANGED <<variant, endpointSet, keySet, nextId, files, started>>

\* processVideoInBackground: if (videoResult.success) downloadAndSaveVideo(...)
\* runs up to the first content fetch; else the flow ends
AfterWait(p) ==
    IF p.pc # "done" THEN p
    ELSE IF p.outcome = "SUCCEEDED" THEN [p EXCEPT !.pc = "download", !.endpoint = 1]
    ELSE p

\* filesystem: one iteration of waitForVideoCompletion, and on its return the
\* continuation of processVideoInBackground
WaitForVideoCompletion(j, up) ==
    /\ variant = "filesystem"
    /\ poller[j].pc = "polling"
    /\ LET status == CheckVideoStatus(up)
       IN  /\ poller' = [poller EXCEPT ![j] =
                 AfterWait(IF status.success /\ status.status = "succeeded"
                           THEN Finished([@ EXCEPT !.generationId = status.gen], "SUCCEEDED")
                           ELSE IF status.success /\ status.status = "failed"
                           THEN Finished(@, "FAILED")
                           ELSE NextAttempt(@, status))]
           /\ resp' = PollLog(j, status)
    /\ UNCHANGED <<variant, endpointSet, keySet, nextId, videoStore, files, started>>

\* downloadAndSaveVideo: const endpoints = [ ..., ... ]
NumEndpoints == 2

\* mutant: the loop has no break; a later candidate is requested after a
\* success and its bytes replace the first one's
TryEndpointNoBreak(p, c) ==
    LET q == IF c.ok THEN [p EXCEPT !.videoBuffer = c.bytes] ELSE p
    IN  IF p.endpoint < NumEndpoints THEN [q EXCEPT !.endpoint = @ + 1]
        ELSE IF q.videoBuffer # NoBytes THEN [q EXCEPT !.pc = "save"]
        ELSE [q EXCEPT !.pc = "done"]

\* for (const endpoint of endpoints): the body for one candidate once its fetch
\* settled; response.ok keeps the bytes and breaks to saveVideoToStorage, a
\* thrown fetch and a non-ok response both go to the next candidate, and after
\* the last one if (!videoBuffer) return
TryEndpoint(p, c) ==
    IF c.ok THEN [p EXCEPT !.videoBuffer = c.bytes, !.pc = "save"]
    ELSE IF p.endpoint < NumEndpoints THEN [p EXCEPT !.endpoint = @ + 1]
    ELSE [p EXCEPT !.pc = "done"]

\* filesystem: one candidate of downloadAndSaveVideo, from the settling of its
\* content fetch
DownloadAndSaveVideo(j, c) ==
    /\ variant = "filesystem"
    /\ poller[j].pc = "download"
    /\ poller' = [poller EXCEPT ![j] = TryEndpoint(@, c)]
    /\ resp' = [NoResp EXCEPT !.kind = "content", !.jobId = j,
                              !.fetched = IF c.ok THEN "ok" ELSE "error",
                              !.upstreamBytes = c.bytes]
    /\ UNCHANGED <<variant, endpointSet, keySet, nextId, videoStore, files, started>>

\* filesystem: saveVideoToStorage, from the settling of fs.writeFile; a failed
\* write is logged and leaves no file
SaveVideoToStorage(j, written) ==
    /\ variant = "filesystem"
    /\ poller[j].pc = "save"
    /\ files' = [files EXCEPT ![j] = IF written THEN poller[j].videoBuffer ELSE @]
    /\ poller' = [poller EXCEPT ![j].pc = "done"]
    /\ resp' = [NoResp EXCEPT !.kind = "save", !.jobId = j,
                              !.fetched = IF written THEN "ok" ELSE "error"]
    /\ UNCHANGED <<variant, endpointSet, keySet, nextId, videoStore, started>>

\* ------------------------------------------------------ presentation tables
\* the keys of the progress and messages object literals
RecognizedStatuses ==
    {"preprocessing", "queued", "running", "processing", "succeeded", "failed"}

\* names an object literal inherits from Object.prototype (constructor,
\* toString, valueOf, hasOwnProperty, ...); each is bound to a function
InheritedKeys == {"constructor"}

\* status strings upstream may send: the recognized ones, "cancelled" for a
\* string no object knows, and an inherited name
StatusStrings == RecognizedStatuses \cup {"cancelled"} \cup InheritedKeys

\* const progress = { 'preprocessing': 20, ... }
progress ==
    [s \in RecognizedStatuses |->
        CASE s = "preprocessing" -> 20
          [] s = "queued" -> 30
          [] s = "running" -> 60
          [] s = "processing" -> 85
          [] s = "succeeded" -> 100
          [] s = "failed" -> 0]

\* return progress[status] || 10: an own key gives its number unless that is 0
\* (falsy); an inherited name gives its function, which is truthy, is returned,
\* and which res.json leaves out of the body; any other string gives undefined
GetProgressFromStatus(status) ==
    IF status \in DOMAIN progress
    THEN IF progress[status] # 0 THEN progress[status] ELSE 10
    ELSE IF status \in InheritedKeys THEN Omitted
    ELSE 10

\* const messages = { ... }; only the 'succeeded' text differs between the servers
messages(videoReady) ==
    [s \in RecognizedStatuses |->
        CASE s = "preprocessing" -> "Video is being prepared..."
          [] s = "queued" -> "Video is in queue..."
          [] s = "running" -> "Video is being generated..."
          [] s = "processing" -> "Video is processing..."
          [] s = "succeeded" ->
                IF videoReady
                THEN (IF variant = "nostore" THEN "Video ready!"
                      ELSE "Video ready for download!")
                ELSE (IF variant = "filesystem"
                      THEN "Video generated, preparing download..."
                      ELSE "Finalizing video...")
          [] s = "failed" -> "Video generation failed"]

\* return messages[status] || `Status: ${status}`: no text of the table is
\* empty; an inherited name gives its function, left out of the body ("")
GetStatusMessage(status, videoReady) ==
    IF status \in RecognizedStatuses THEN messages(videoReady)[status]
    ELSE IF status \in InheritedKeys THEN ""
    ELSE "Status: " \o status

\* ------------------------------------------------- POST /check-video-status
\* mutant: compares the entry with upstream's word instead of the store's
VideoReadySucceeded(videoData) == videoData.status = "succeeded"

\* mutant: any entry counts as ready (videoReady = !!videoData)
VideoReadyAnyEntry(videoData) == videoData.status # "absent"

\* memory: const videoReady = videoData && videoData.status === 'ready'
VideoReady(videoData) == videoData.status = "ready"

\* mutant: the URL is built without probing for the file
DownloadUrlUnprobed(j) == j

\* filesystem: existsSync(videoPath) ? `/videos/video-${jobId}.mp4` : null
DownloadUrl(j) == IF files[j] # NoBytes THEN j ELSE NoJobId

\* nostore: getDirectVideoUrl; any of generation.url, generation.data.url or the
\* constructed content URL when the second status fetch lists a generation
GetDirectVideoUrl(up2) ==
    IF endpointSet /\ up2.ok /\ up2.gen # NoGen THEN "url" ELSE ""

\* mutant: the URL is looked up without the test on the status
DirectVideoUrlAnyStatus(status, up2) == GetDirectVideoUrl(up2)

\* nostore: if (status.status === 'succeeded' && status.generations && ...length > 0)
DirectVideoUrl(status, up2) ==
    IF status.status = "succeeded" /\ status.gen # NoGen
    THEN GetDirectVideoUrl(up2) ELSE ""

CheckFailure(j, error, called) ==
    [NoResp EXCEPT !.kind = "check", !.http = 200, !.jobId = j, !.error = error,
                   !.upstreamCalled = called]

\* mutant: the handler answers with the Poller's verdict once there is one
CheckSuccessLocalStatus(j, status, up) ==
    [NoResp EXCEPT !.kind = "check", !.http = 200, !.jobId = j, !.success = TRUE,
                   !.status = IF poller[j].outcome = "FAILED" THEN "failed"
                              ELSE status.status,
                   !.progress = GetProgressFromStatus(status.status),
                   !.upstreamCalled = TRUE, !.upstreamStatus = up.status]

\* res.json({success: true, jobId, status: status.status, ...})
CheckSuccess(j, status, up) ==
    [NoResp EXCEPT !.kind = "check", !.http = 200, !.jobId = j, !.success = TRUE,
                   !.status = status.status,
                   !.progress = GetProgressFromStatus(status.status),
                   !.upstreamCalled = TRUE, !.upstreamStatus = up.status]

\* memory and filesystem servers
PostCheckVideoStatus(j, up) ==
    /\ variant \in PollerVariants
    /\ LET status == CheckVideoStatus(up)
       IN  resp' =
             IF j = NoJobId THEN CheckFailure(j, "Job ID is required", FALSE)
             ELSE IF ~status.success THEN CheckFailure(j, "Status check failed", endpointSet)
             ELSE IF variant = "memory"
             THEN [CheckSuccess(j, status, up) EXCEPT
                       !.videoReady = VideoReady(videoStore[j]),
                       !.message = GetStatusMessage(status.status,
                                                    VideoReady(videoStore[j]))]
             ELSE [CheckSuccess(j, status, up) EXCEPT
                       !.downloadUrl = DownloadUrl(j),
                       !.videoReady = DownloadUrl(j) # NoJobId,
                       !.message = GetStatusMessage(status.status,
                                                    DownloadUrl(j) # NoJobId)]
    /\ UNCHANGED <<variant, endpointSet, keySet, nextId, videoStore, files, poller,
                   started>>

\* nostore server: the status fetch, then the second fetch of getDirectVideoUrl
PostCheckVideoStatusDirect(j, up, up2) ==
    /\ variant = "nostore"
    /\ LET status == CheckVideoStatus(up)
       IN  resp' =
             IF j = NoJobId THEN CheckFailure(j, "Job ID is required", FALSE)
             ELSE IF ~status.success THEN CheckFailure(j, "Status check failed", endpointSet)
             ELSE [CheckSuccess(j, status, up) EXCEPT
                       !.videoUrl = DirectVideoUrl(status, up2),
                       !.videoReady = DirectVideoUrl(status, up2) # "",
                       !.message = GetStatusMessage(status.status,
                                                    DirectVideoUrl(status, up2) # "")]
    /\ UNCHANGED <<variant, endpointSet, keySet, nextId, videoStore, files, poller,
                   started>>

\* --------------------------------------------------- GET /download-video
\* mutant: the body is cut short of the upstream bytes
VideoBufferTruncated(c) == IF c.bytes = "b2" THEN "b1" ELSE c.bytes

\* res.send(Buffer.from(await response.arrayBuffer()))
VideoBuffer(c) == c.bytes

DownloadFailure(j, http, error, called) ==
    [NoResp EXCEPT !.kind = "download", !.http = http, !.jobId = j, !.error = error,
                   !.upstreamCalled = called]

\* memory only: the other two servers have no such route
GetDownloadVideo(j, c) ==
    /\ variant = "memory"
    /\ resp' =
         IF j = NoJobId THEN DownloadFailure(j, 400, "Job ID is required", FALSE)
         ELSE LET videoData == videoStore[j]
              IN  IF videoData = Absent \/ videoData.status # "ready"
                  THEN DownloadFailure(j, 404, "Video not ready or not found", FALSE)
                  ELSE IF ~endpointSet
                  THEN DownloadFailure(j, 500, "Download failed", FALSE)
                  ELSE IF ~c.ok
                  THEN [DownloadFailure(j, 500, "Download failed", TRUE) EXCEPT
                            !.fetchedGen = videoData.generationId]
                  ELSE [NoResp EXCEPT !.kind = "download", !.http = 200, !.jobId = j,
                                      !.success = TRUE, !.upstreamCalled = TRUE,
                                      !.fetchedGen = videoData.generationId,
                                      !.upstreamBytes = c.bytes,
                                      !.body = VideoBuffer(c)]
    /\ UNCHANGED <<variant, endpointSet, keySet, nextId, videoStore, files, poller,
                   started>>

\* ---------------------------------------------------- GET /get-video-info
\* mutant: the lookup leaves a placeholder entry behind for a job it does not know
GetVideoInfoCaches(j) ==
    /\ variant = "memory"
    /\ resp' =
         IF j = NoJobId
         THEN [NoResp EXCEPT !.kind = "info", !.http = 400, !.jobId = j,
                             !.error = "Job ID is required"]
         ELSE IF videoStore[j] = Absent
         THEN [NoResp EXCEPT !.kind = "info", !.http = 404, !.jobId = j,
                             !.error = "Video data not found"]
         ELSE [NoResp EXCEPT !.kind = "info", !.http = 200, !.jobId = j,
                             !.success = TRUE, !.status = videoStore[j].status,
                             !.generationId = videoStore[j].generationId,
                             !.prompt = videoStore[j].prompt]
    /\ videoStore' = IF j # NoJobId /\ videoStore[j] = Absent
                     THEN [videoStore EXCEPT ![j] = [Absent EXCEPT !.status = "unknown"]]
                     ELSE videoStore
    /\ UNCHANGED <<variant, endpointSet, keySet, nextId, files, poller, started>>

\* memory only: reads the job's entry, asks upstream nothing
GetVideoInfo(j) ==
    /\ variant = "memory"
    /\ resp' =
         IF j = NoJobId
         THEN [NoResp EXCEPT !.kind = "info", !.http = 400, !.jobId = j,
                             !.error = "Job ID is required"]
         ELSE IF videoStore[j] = Absent
         THEN [NoResp EXCEPT !.kind = "info", !.http = 404, !.jobId = j,
                             !.error = "Video data not found"]
         ELSE [NoResp EXCEPT !.kind = "info", !.http = 200, !.jobId = j,
                             !.success = TRUE, !.status = videoStore[j].status,
                             !.generationId = videoStore[j].generationId,
                             !.prompt = videoStore[j].prompt]
    /\ UNCHANGED <<variant, endpointSet, keySet, nextId, videoStore, files, poller,
                   started>>

\* ------------------------------------------------------------- GET /health
\* memory: active_jobs: videoStore.size; the other two servers send no count
GetHealth ==
    /\ resp' = [NoResp EXCEPT !.kind = "health", !.http = 200,
                              !.status = "healthy",
                              !.activeJobs =
                                  IF variant = "memory"
                                  THEN Cardinality({j \in JobIds : videoStore[j] # Absent})
                                  ELSE Omitted]
    /\ UNCHANGED <<variant, endpointSet, keySet, nextId, videoStore, files, poller,
                   started>>

\* ------------------------------------------------------------------ inputs
\* upstream answers a submission only when the handler sends one: a request
\* without prompt, and a server without endpoint or key, answer at once, and
\* the one outcome listed for them is never looked at
SubmitsTo(prompt) ==
    IF PromptMissing(prompt) \/ ConfigMissing
    THEN {[kind |-> "throw", code |-> 0, status |-> ""]}
    ELSE SubmitResults

\* a status request without jobId is answered before any fetch
FetchesFor(j) == IF j = NoJobId THEN {FetchFailure} ELSE FetchResults

Next ==
    \/ \E prompt \in Prompts : \E up \in SubmitsTo(prompt) : PostGenerateVideo(prompt, up)
    \/ \E j \in JobIds, up \in FetchResults : MonitorVideoGeneration(j, up)
    \/ \E j \in JobIds, up \in FetchResults : WaitForVideoCompletion(j, up)
    \/ \E j \in JobIds, c \in ContentResults : DownloadAndSaveVideo(j, c)
    \/ \E j \in JobIds, written \in BOOLEAN : SaveVideoToStorage(j, written)
    \/ \E j \in ReqJobIds : \E up \in FetchesFor(j) : PostCheckVideoStatus(j, up)
    \/ /\ variant = "nostore"
       /\ \E j \in ReqJobIds, up \in FetchResults, up2 \in FetchResults :
              PostCheckVideoStatusDirect(j, up, up2)
    \/ \E j \in ReqJobIds, c \in ContentResults : GetDownloadVideo(j, c)
    \/ \E j \in ReqJobIds : GetVideoInfo(j)
    \/ GetHealth

Spec == Init /\ [][Next]_vars

\* a status fetch in flight settles ("provided every upstream call returns")
PollSettles(j) ==
    \/ \E up \in FetchResults : MonitorVideoGeneration(j, up)
    \/ \E up \in FetchResults : WaitForVideoCompletion(j, up)

\* the submission handler and the detached background flows it starts; the
\* status and download handlers only answer, and are left to Spec
BackgroundNext ==
    \/ \E prompt \in Prompts : \E up \in SubmitsTo(prompt) : PostGenerateVideo(prompt, up)
    \/ \E j \in JobIds, up \in FetchResults : MonitorVideoGeneration(j, up)
    \/ \E j \in JobIds, up \in FetchResults : WaitForVideoCompletion(j, up)
    \/ \E j \in JobIds, c \in ContentResults : DownloadAndSaveVideo(j, c)
    \/ \E j \in JobIds, written \in BOOLEAN : SaveVideoToStorage(j, written)

PollerSpec ==
    Init /\ [][BackgroundNext]_vars /\ WF_vars(\E j \in JobIds : PollSettles(j))

\* status fetches that answer with any string of StatusStrings
TableFetchResults ==
    {FetchFailure}
    \cup [ok : {TRUE}, status : StatusStrings \ {"succeeded"}, gen : {NoGen},
          prompt : {"a cat"}]
    \cup [ok : {TRUE}, status : {"succeeded"}, gen : GenIds \cup {NoGen},
          prompt : {"a cat"}]

\* submissions and their background flows, and the status handlers of the three
\* servers, which apply getProgressFromStatus and getStatusMessage to the status
\* upstream sent, over all of StatusStrings
TableNext ==
    \/ BackgroundNext
    \/ \E j \in ReqJobIds, up \in TableFetchResults : PostCheckVideoStatus(j, up)
    \/ /\ variant = "nostore"
       /\ \E j \in ReqJobIds, up \in TableFetchResults, up2 \in FetchResults :
              PostCheckVideoStatusDirect(j, up, up2)

TableSpec == Init /\ [][TableNext]_vars

\* ===================================================================== C1
Outcomes == {"SUCCEEDED", "FAILED", "TIMED_OUT"}

\* C1: every Poller run issues at most 60 status fetches (the fetch in flight
\* while the loop runs is the attempt-th of the run, attempt <= 60), ends, when
\* every fetch settles, in one of SUCCEEDED, FAILED, TIMED_OUT, and from then on
\* keeps that outcome and has no status fetch in flight again.
C1_PollerBoundedAndTerminates ==
    /\ [](\A j \in JobIds :
            /\ poller[j].pc = "polling" =>
                   /\ poller[j].attempt \in 1..maxAttempts
                   /\ poller[j].outcome = "PENDING"
            /\ poller[j].pc \notin {"idle", "polling"} => poller[j].outcome \in Outcomes
            /\ started[j] <= 1)
    /\ [][\A j \in JobIds :
            poller[j].outcome \in Outcomes =>
                /\ poller'[j].outcome = poller[j].outcome
                /\ poller'[j].pc # "polling"]_vars
    /\ \A j \in JobIds :
            (poller[j].pc = "polling") ~> (poller[j].outcome \in Outcomes)

\* a run that used all 60 attempts
C1_Witness ==
    \E j \in JobIds : poller[j].pc = "done" /\ poller[j].outcome = "TIMED_OUT"
                      /\ started[j] = 1

\* ===================================================================== C2
\* the Poller of job j saw 'succeeded' together with a generation id
SawSucceededWithGeneration(j) ==
    poller[j].outcome = "SUCCEEDED" /\ poller[j].generationId # NoGen

CheckOf(j) == resp.kind = "check" /\ resp.success /\ resp.jobId = j

\* C2 as stated: after the Poller saw 'succeeded' with a generation id, every
\* successful status check of the job reports videoReady:true and a locator
\* (downloadUrl or videoUrl).
C2_ReadyWithLocator ==
    \A j \in JobIds :
        SawSucceededWithGeneration(j) /\ CheckOf(j) =>
            resp.videoReady /\ (resp.downloadUrl # NoJobId \/ resp.videoUrl # "")

\* C2 amended: after the Poller saw 'succeeded' with a generation id, a
\* successful status check of the job reports, on the memory server,
\* videoReady:true and no locator field (the job's 'ready' entry then serves
\* /download-video); on the filesystem server videoReady:true
\* with downloadUrl /videos/video-{jobId}.mp4 exactly when the background
\* download has written the file, and videoReady:false with downloadUrl null
\* while it has not or after it failed.
C2_ReadyOnceStored ==
    \A j \in JobIds :
        SawSucceededWithGeneration(j) /\ CheckOf(j) =>
            /\ variant = "memory" =>
                   /\ resp.videoReady /\ resp.downloadUrl = NoJobId /\ resp.videoUrl = ""
                   /\ videoStore[j].status = "ready"
            /\ variant = "filesystem" =>
                   /\ resp.videoReady <=> files[j] # NoBytes
                   /\ resp.downloadUrl = (IF files[j] # NoBytes THEN j ELSE NoJobId)
                   /\ poller[j].pc \in {"download", "save"} => ~resp.videoReady

C2_Witness ==
    \E j \in JobIds :
        /\ SawSucceededWithGeneration(j) /\ CheckOf(j) /\ resp.videoReady
        /\ variant = "memory"
        /\ resp.upstreamStatus = "running"

\* ===================================================================== C3
\* C3: once the Poller saw 'failed', no status check of the job reports
\* videoReady:true, whatever upstream answers to the check.
C3_FailedNeverReady ==
    \A j \in JobIds :
        poller[j].outcome = "FAILED" /\ CheckOf(j) =>
            ~resp.videoReady /\ resp.downloadUrl = NoJobId

\* the job failed for the Poller, upstream now says 'succeeded' to the check
C3_Witness ==
    \E j \in JobIds :
        /\ poller[j].outcome = "FAILED" /\ CheckOf(j)
        /\ resp.upstreamStatus = "succeeded" /\ ~resp.videoReady

\* ===================================================================== C4
NothingStored(j) == videoStore[j] = Absent /\ files[j] = NoBytes

\* C4: while the loop runs at most 60 attempts are made and nothing is stored
\* for the job; a run whose 60 attempts all ended without 'succeeded' or
\* 'failed' has stopped after the 60th (the loop test failed on 61), with no
\* store entry, no download attempted and no file.
C4_TimeoutStoresNothing ==
    \A j \in JobIds :
        /\ poller[j].pc = "polling" =>
               poller[j].attempt <= maxAttempts /\ NothingStored(j)
        /\ poller[j].outcome = "TIMED_OUT" =>
               /\ poller[j].attempt = maxAttempts + 1
               /\ poller[j].pc = "done"
               /\ poller[j].videoBuffer = NoBytes
               /\ NothingStored(j)
        /\ (resp.kind = "poll" /\ resp.jobId = j /\ resp.fetched = "pending"
            /\ poller[j].pc # "polling") => poller[j].outcome = "TIMED_OUT"

\* the 60th attempt returned a non-terminal status and the run stopped
C4_Witness ==
    \E j \in JobIds :
        /\ resp.kind = "poll" /\ resp.jobId = j /\ resp.fetched = "pending"
        /\ poller[j].outcome = "TIMED_OUT" /\ NothingStored(j)

\* ===================================================================== C5
\* C5: a poll step whose status fetch failed uses up one attempt and leaves the
\* run going, unless it was the 60th, and a run becomes TIMED_OUT only in the
\* step that ends its 60th attempt.
C5_FetchErrorKeepsPolling ==
    [][\A j \in JobIds :
          /\ (resp'.kind = "poll" /\ resp'.jobId = j /\ resp'.fetched = "error") =>
                 /\ poller'[j].attempt = poller[j].attempt + 1
                 /\ poller[j].attempt < maxAttempts =>
                        poller'[j].pc = "polling" /\ poller'[j].outcome = "PENDING"
                 /\ poller[j].attempt = maxAttempts => poller'[j].outcome = "TIMED_OUT"
          /\ (poller[j].outcome # "TIMED_OUT" /\ poller'[j].outcome = "TIMED_OUT") =>
                 poller[j].attempt = maxAttempts /\ poller[j].pc = "polling"]_vars

\* a status fetch failed and the next attempt is under way
C5_Witness ==
    \E j \in JobIds :
        /\ resp.kind = "poll" /\ resp.jobId = j /\ resp.fetched = "error"
        /\ poller[j].pc = "polling" /\ poller[j].attempt > 1
\* ===================================================================== C6
\* C6 as stated: a store entry exists for a job only where its Poller saw
\* 'succeeded'.
C6_EntryOnlyOnSucceeded ==
    \A j \in JobIds : videoStore[j] # Absent => poller[j].outcome = "SUCCEEDED"

\* C6 amended: the memory server's store gets an entry for a job only in the
\* poll step of that job that saw 'succeeded' with a generation listed (a
\* 'ready' entry holding that generation id) or 'failed' (a {status:'failed'}
\* entry); 'succeeded' with no generation writes nothing; an entry, once
\* there, is never changed or removed.
C6_EntryWrittenOnceByPoller ==
    /\ [](\A j \in JobIds :
            CASE videoStore[j].status = "absent" -> videoStore[j] = Absent
              [] videoStore[j].status = "ready" ->
                    /\ poller[j].outcome = "SUCCEEDED"
                    /\ videoStore[j].generationId = poller[j].generationId
                    /\ videoStore[j].generationId \in GenIds
              [] videoStore[j].status = "failed" ->
                    /\ poller[j].outcome = "FAILED"
                    /\ videoStore[j] = FailedEntry
              [] OTHER -> FALSE)
    /\ [](\A j \in JobIds :
            (variant = "memory" /\ poller[j].outcome = "SUCCEEDED"
             /\ poller[j].generationId = NoGen) => videoStore[j] = Absent)
    /\ [][\A j \in JobIds :
            /\ videoStore[j] # Absent => videoStore'[j] = videoStore[j]
            /\ videoStore'[j] # videoStore[j] =>
                  /\ resp'.kind = "poll" /\ resp'.jobId = j
                  /\ resp'.fetched \in {"succeeded", "failed"}]_vars

\* an entry written on 'failed' is still there when a status check is answered
C6_Witness ==
    \E j \in JobIds : videoStore[j] = FailedEntry /\ CheckOf(j)

\* ===================================================================== C7
\* C7: a submission with a prompt on a configured server answers success:true
\* exactly when upstream answered 201 or 202; then jobId is the id upstream gave,
\* status is the upstream body's status, and on the memory and filesystem
\* servers exactly one Poller run is started, for that id; otherwise nothing is
\* started and nothing is stored.
C7_SubmitAcceptedIff201or202 ==
    [][(resp'.kind = "generate" /\ resp'.prompt = "a cat" /\ ~ConfigMissing) =>
          /\ resp'.upstreamCalled
          /\ resp'.success <=> resp'.upstreamCode \in {201, 202}
          /\ resp'.success =>
                /\ resp'.jobId = nextId
                /\ nextId' = nextId + 1
                /\ resp'.status = resp'.upstreamStatus
                /\ \A j \in JobIds :
                      started'[j] = IF j = nextId /\ variant \in PollerVariants
                                    THEN started[j] + 1 ELSE started[j]
                /\ \A j \in JobIds : j # nextId => poller'[j] = poller[j]
                /\ variant \in PollerVariants =>
                      /\ started'[nextId] = 1
                      /\ poller'[nextId].pc = "polling"
                      /\ poller'[nextId].attempt = 1
                /\ variant = "nostore" => poller' = poller
                /\ UNCHANGED <<videoStore, files>>
          /\ ~resp'.success =>
                UNCHANGED <<nextId, poller, started, videoStore, files>>]_vars

\* accepted with 202: the Poller of the new job is on its first status fetch
C7_Witness ==
    /\ resp.kind = "generate" /\ resp.success /\ resp.upstreamCode = 202
    /\ resp.jobId \in JobIds
    /\ started[resp.jobId] = 1 /\ poller[resp.jobId].pc = "polling"

\* ===================================================================== C8
\* C8: a submission without a prompt (absent or empty) is answered
\* {success:false, error:"Please provide a video prompt"}; a submission to a
\* server without endpoint or key is answered success:false; in both cases
\* upstream is not called, no Poller is started and nothing is stored.
C8_RefusedWithoutUpstreamCall ==
    [][(resp'.kind = "generate"
        /\ (resp'.prompt \in {"absent", ""} \/ ~endpointSet \/ ~keySet)) =>
          /\ ~resp'.success
          /\ resp'.prompt \in {"absent", ""} =>
                resp'.error = "Please provide a video prompt"
          /\ ~resp'.upstreamCalled
          /\ UNCHANGED <<nextId, poller, started, videoStore, files>>]_vars

\* an empty prompt refused by a fully configured server
C8_Witness ==
    /\ resp.kind = "generate" /\ resp.prompt = "" /\ ~ConfigMissing
    /\ resp.error = "Please provide a video prompt" /\ ~resp.upstreamCalled

\* ===================================================================== C9
DownloadOf(j) == resp.kind = "download" /\ resp.jobId = j

\* C9 as stated: a download for a job without a store entry is answered 404,
\* and one for a job with an entry is answered with the bytes upstream sent for
\* that entry's generation id (or fails because that upstream fetch failed).
C9_EntryPresentServesBytes ==
    \A j \in JobIds :
        DownloadOf(j) =>
            /\ videoStore[j] = Absent => resp.http = 404
            /\ videoStore[j] # Absent =>
                  \/ /\ resp.http = 200
                     /\ resp.body = resp.upstreamBytes
                     /\ resp.fetchedGen = videoStore[j].generationId
                  \/ resp.http = 500 /\ resp.upstreamCalled

\* C9 amended: on the memory server a download is answered 404 when the job has
\* no store entry or its entry is not 'ready' (the {status:'failed'} entry of a
\* failed job); with a 'ready' entry the content of that entry's generation id
\* is fetched from upstream and, when that fetch succeeds, sent with status 200
\* byte for byte; when it fails the answer is 500.
C9_ReadyEntryServesBytes ==
    \A j \in JobIds :
        DownloadOf(j) =>
            /\ videoStore[j].status # "ready" =>
                  resp.http = 404 /\ ~resp.upstreamCalled /\ resp.body = NoBytes
            /\ videoStore[j].status = "ready" =>
                  /\ resp.upstreamCalled
                  /\ resp.fetchedGen = videoStore[j].generationId
                  /\ resp.http \in {200, 500}
                  /\ resp.http = 200 <=> resp.upstreamBytes \in Bytes
                  /\ resp.body = resp.upstreamBytes

\* upstream sent b2 for the stored generation g2 and b2 was served
C9_Witness ==
    \E j \in JobIds :
        /\ DownloadOf(j) /\ resp.http = 200
        /\ videoStore[j] = ReadyEntry("g2", "a cat")
        /\ resp.fetchedGen = "g2" /\ resp.body = "b2"

\* ==================================================================== C10
\* the Poller saw 'succeeded', every candidate content URL failed, the flow ended
AllCandidatesFailed(j) ==
    /\ variant = "filesystem"
    /\ poller[j].outcome = "SUCCEEDED"
    /\ poller[j].pc = "done"
    /\ poller[j].videoBuffer = NoBytes

\* C10: on the filesystem server, when the Poller saw 'succeeded' and every
\* candidate content URL failed, the background flow has ended with no file
\* written, it never runs again, and every successful status check of the job
\* reports upstream's status (so 'succeeded' while upstream says so) with
\* videoReady:false and downloadUrl null.
C10_DownloadFailureNeverReady ==
    /\ [](\A j \in JobIds :
            AllCandidatesFailed(j) =>
                /\ files[j] = NoBytes
                /\ CheckOf(j) =>
                      /\ resp.status = resp.upstreamStatus
                      /\ ~resp.videoReady
                      /\ resp.downloadUrl = NoJobId)
    /\ [][\A j \in JobIds :
            AllCandidatesFailed(j) =>
                poller'[j] = poller[j] /\ files'[j] = files[j]]_vars
    /\ [][\A j \in JobIds :
            (poller[j].pc = "download" /\ poller'[j].pc = "done") =>
                /\ poller[j].endpoint = NumEndpoints
                /\ resp'.fetched = "error"
                /\ AllCandidatesFailed(j)']_vars

\* upstream still says 'succeeded', the check says videoReady:false
C10_Witness ==
    \E j \in JobIds :
        /\ AllCandidatesFailed(j) /\ CheckOf(j)
        /\ resp.status = "succeeded" /\ ~resp.videoReady

\* ==================================================================== C11
\* C11: downloadAndSaveVideo requests its candidate content URLs one at a time
\* in list order starting with the first; the first candidate that answers with
\* success ends the requests and its bytes are the ones handed to
\* saveVideoToStorage and the only ones ever written to the job's file; the flow
\* ends without a save only when the last candidate has failed too, all
\* candidates having failed by status or by a thrown error, and then no file is
\* written.
C11_CandidatesInOrderFirstSuccess ==
    /\ [](\A j \in JobIds :
            /\ poller[j].pc = "download" =>
                   /\ poller[j].endpoint \in 1..NumEndpoints
                   /\ poller[j].videoBuffer = NoBytes
                   /\ files[j] = NoBytes
            /\ poller[j].pc = "save" => poller[j].videoBuffer \in Bytes
            /\ files[j] # NoBytes => files[j] = poller[j].videoBuffer)
    /\ [][\A j \in JobIds :
            /\ (poller[j].pc # "download" /\ poller'[j].pc = "download") =>
                   poller'[j].endpoint = 1
            /\ (resp'.kind = "content" /\ resp'.jobId = j) =>
                   /\ poller[j].pc = "download"
                   /\ resp'.fetched = "ok" =>
                          /\ poller'[j].pc = "save"
                          /\ poller'[j].endpoint = poller[j].endpoint
                          /\ poller'[j].videoBuffer = resp'.upstreamBytes
                   /\ resp'.fetched = "error" =>
                          /\ poller'[j].videoBuffer = NoBytes
                          /\ IF poller[j].endpoint < NumEndpoints
                             THEN /\ poller'[j].pc = "download"
                                  /\ poller'[j].endpoint = poller[j].endpoint + 1
                             ELSE poller'[j].pc = "done"
            /\ poller[j].pc = "save" =>
                   /\ poller'[j].pc \in {"save", "done"}
                   /\ poller'[j].videoBuffer = poller[j].videoBuffer
            /\ (poller[j].pc = "done" /\ poller[j].outcome = "SUCCEEDED") =>
                   poller'[j] = poller[j]
            /\ files'[j] # files[j] =>
                   /\ poller[j].pc = "save"
                   /\ files[j] = NoBytes
                   /\ files'[j] = poller[j].videoBuffer]_vars

\* the first candidate failed, the second sent b2, and b2 is the file
C11_Witness ==
    \E j \in JobIds :
        /\ poller[j].pc = "done" /\ poller[j].endpoint = 2
        /\ poller[j].videoBuffer = "b2" /\ files[j] = "b2"

\* ==================================================================== C12
HandlerKinds == {"generate", "check", "download", "info", "health"}

C13_RawStatusUntilPollerSucceeds ==
    \A j \in JobIds :
        (variant \in PollerVariants /\ poller[j].outcome # "SUCCEEDED" /\ CheckOf(j)) =>
            /\ resp.status = resp.upstreamStatus
            /\ ~resp.videoReady
            /\ resp.downloadUrl = NoJobId
            /\ videoStore[j].status # "ready"
            /\ files[j] = NoBytes

\* upstream said 'succeeded' to the check while the Poller was still polling
C13_Witness ==
    \E j \in JobIds :
        /\ variant \in PollerVariants /\ poller[j].pc = "polling" /\ CheckOf(j)
        /\ resp.status = "succeeded" /\ resp.upstreamStatus = "succeeded"
        /\ ~resp.videoReady

\* ==================================================================== C14
\* C14: a successful status check of a status string that is not one of the
\* six recognized ones reports progress 10 and the message "Status: <status>".
C14_UnrecognizedGetsDefaults ==
    (resp.kind = "check" /\ resp.success /\ resp.status \notin RecognizedStatuses) =>
        /\ resp.progress = 10
        /\ resp.message = "Status: " \o resp.status

\* ==================================================================== C15
\* C15: a successful status check of a recognized status reports the progress
\* the table gives it (preprocessing 20, queued 30, running 60, processing 85,
\* succeeded 100, failed 0), and progress 10 is reported only for a status that
\* is not in the table.
C15_ProgressFollowsTable ==
    (resp.kind = "check" /\ resp.success) =>
        /\ resp.status \in RecognizedStatuses => resp.progress = progress[resp.status]
        /\ resp.progress = 10 => resp.status \notin RecognizedStatuses

\* ==================================================================== C16
ReadyCheck == resp.kind = "check" /\ resp.success /\ resp.videoReady

\* C16 as stated: on all three servers a successful status check that reports
\* videoReady:true reports status 'succeeded' in the same response.
C16_ReadyImpliesSucceeded ==
    ReadyCheck => resp.status = "succeeded"

\* C16 amended: a successful status check that reports videoReady:true reports,
\* on the nostore server, status 'succeeded' and a video URL; on the memory
\* server it means that the job has a 'ready' store entry and on the filesystem
\* server that the job's file exists, both made by a background flow whose
\* Poller saw 'succeeded', while the status in the response is the one upstream
\* sent to this check, which need not be 'succeeded'.
C16_ReadyImpliesSucceededSeen ==
    ReadyCheck =>
        /\ resp.jobId \in JobIds
        /\ resp.status = resp.upstreamStatus
        /\ variant = "nostore" => resp.status = "succeeded" /\ resp.videoUrl # ""
        /\ variant = "memory" =>
               /\ videoStore[resp.jobId].status = "ready"
               /\ poller[resp.jobId].outcome = "SUCCEEDED"
        /\ variant = "filesystem" =>
               /\ files[resp.jobId] # NoBytes
               /\ resp.downloadUrl = resp.jobId
               /\ poller[resp.jobId].outcome = "SUCCEEDED"

\* the file is there and upstream answers 'running' to the check
C16_Witness ==
    /\ ReadyCheck /\ variant = "filesystem"
    /\ resp.status = "running" /\ files[resp.jobId] \in Bytes

====
